---- MODULE Spec2Model ----
(***************************************************************************)
(* Pairwise-comparison ranking engine of rankCentral:                      *)
(*   ComparisonEngine   (src/backend/comparisons/comparison_engine.py)     *)
(*   mergesort_with_comparator / _merge_with_comparator                    *)
(*                      (src/backend/comparisons/mergesort_ranking.py)     *)
(*   DocumentComparator (src/backend/comparisons/document_comparator.py)   *)
(*                                                                         *)
(* The recursion of mergesort_with_comparator is an explicit stack of      *)
(* frames; one merge-loop iteration is one step.  The judge (the LLM) is   *)
(* the environment: each DocumentComparator.compare draws the judge's      *)
(* per-criterion verdicts from JudgeReplies.  Python's None is the string  *)
(* "None"; document ids never equal "Tie", "Error" or "None".              *)
(***************************************************************************)
EXTENDS Integers, Sequences, FiniteSets, TLC

VARIABLES
    documents,           \* argument of compare_with_mergesort (list of ids)
    loaded,              \* keys of ComparisonEngine.documents (id -> content)
    openai_api_key,      \* length of the configured API key string
    comparison_results,  \* ComparisonEngine.comparison_results (the log)
    pc,                  \* "idle" | "running" | "done" of compare_with_mergesort
    stack,               \* call stack of mergesort_with_comparator
    ranked,              \* value returned by compare_with_mergesort
    calls,               \* history: DocumentComparator.compare invocations
    direct,              \* history: compare_documents requests made by callers
    lastCall,            \* history: last compare_documents request and result
    stubbed,             \* the judge is a deterministic stub
    stub,                \* the stub's fixed verdicts, per requested pair
    runNo,               \* 1 or 2: which run on a fresh engine
    firstRanked,         \* ranked list of run 1 (kept for run 2)
    ev,                  \* one CriterionEvaluator.evaluate call
    cmp,                 \* one DocumentComparator.compare call
    budget,              \* prompt size and response limit of one judge call
    report,              \* output of ComparisonDataProcessor for the report
    threads,             \* compare_documents calls in progress, per thread
    api                  \* the compare-documents endpoint: request and answer

vars == <<documents, loaded, openai_api_key, comparison_results, pc, stack,
          ranked, calls, direct, lastCall, stubbed, stub, runNo, firstRanked,
          ev, cmp, budget, report, threads, api>>

auxVars == <<ev, cmp, budget, report, threads, api>>
rankVars == <<documents, loaded, comparison_results, pc, stack, ranked, calls,
              direct, lastCall, stubbed, stub, runNo, firstRanked>>

engineVars == <<loaded, openai_api_key>>
stubVars == <<stubbed, runNo, firstRanked>>

----------------------------------------------------------------------------
(* Bounds *)

MaxLen == 4
MaxRequests == 1

DocIds == {"A", "B", "C", "D"}

RECURSIVE ListsOfLen(_)
ListsOfLen(n) ==
    IF n = 0 THEN {<<>>}
    ELSE {Append(s, d) : s \in ListsOfLen(n - 1), d \in DocIds}

InputLists == UNION {ListsOfLen(n) : n \in 0..MaxLen}

----------------------------------------------------------------------------
(* Configuration *)

MinKeyLen == 20
MaxScore == 5

\* the criterion catalog (name, weight)
criteria == << [name |-> "c1", weight |-> 60], [name |-> "c2", weight |-> 40] >>

KeyLens == {MinKeyLen, MinKeyLen + 1}

\* a key of a reply that the reply does not have
Absent == "<absent>"

\* a verdict as evaluate returns it; the judge here leaves the name to compare
Verdict(a, b, w) ==
    [document_a_score |-> a, document_b_score |-> b, winner |-> w,
     reasoning |-> <<"text">>, criterion_name |-> Absent]

\* what the judge may answer for one pair: one verdict per criterion
JudgeReplies ==
    { << Verdict(5, 0, "A"), Verdict(0, 5, "B") >>,
      << Verdict(0, 5, "B"), Verdict(5, 0, "A") >>,
      << Verdict(3, 3, "Tie"), Verdict(3, 3, "Tie") >> }

----------------------------------------------------------------------------
(* CriterionEvaluator *)

\* JSON values of a reply: number, string (its characters), null, missing key
JNum(n) == [t |-> "num", n |-> n, s |-> <<>>]
JStr(s) == [t |-> "str", n |-> 0, s |-> s]
JNull == [t |-> "null", n |-> 0, s |-> <<>>]
JAbsent == [t |-> "absent", n |-> 0, s |-> <<>>]

DigitValue ==
    [c \in {"0", "1", "2", "3", "4", "5", "6", "7", "8", "9"} |->
        CASE c = "0" -> 0 [] c = "1" -> 1 [] c = "2" -> 2 [] c = "3" -> 3
          [] c = "4" -> 4 [] c = "5" -> 5 [] c = "6" -> 6 [] c = "7" -> 7
          [] c = "8" -> 8 [] c = "9" -> 9]

RECURSIVE ParseDigits(_, _, _)
ParseDigits(s, k, acc) ==
    IF k > Len(s) THEN <<acc>>
    ELSE IF s[k] \notin DOMAIN DigitValue THEN <<>>
    ELSE ParseDigits(s, k + 1, 10 * acc + DigitValue[s[k]])

\* float(v): <<x>> is the number, <<>> is ValueError or TypeError
Float(v) ==
    IF v.t = "num" THEN <<v.n>>
    ELSE IF v.t = "str" /\ Len(v.s) > 0 THEN ParseDigits(v.s, 1, 0)
    ELSE <<>>

\* the raw outcome of the chat completion request
RawRaise ==
    [kind |-> "raise", document_a_score |-> JAbsent,
     document_b_score |-> JAbsent, winner |-> Absent, reasoning |-> <<>>,
     criterion_name |-> Absent]
RawText == [RawRaise EXCEPT !.kind = "text"]
RawJson(a, b, w, name) ==
    [kind |-> "json", document_a_score |-> a, document_b_score |-> b,
     winner |-> w, reasoning |-> <<"text">>, criterion_name |-> name]

ScoreValues ==
    {JAbsent, JNull, JStr(<<"4">>), JStr(<<"h", "i">>)}
        \cup {JNum(n) : n \in {-1, 0, 3, 5, 7}}
WinnerValues == {Absent, "A", "B", "Tie"}
NameValues == {Absent, "c1"}

RawReplies ==
    {RawRaise, RawText}
        \cup {RawJson(a, b, w, name) : a \in ScoreValues, b \in ScoreValues,
                                     w \in WinnerValues, name \in NameValues}

EvaluatorValidateApiKey == openai_api_key > MinKeyLen

CreateErrorEvaluation(error_message) ==
    [document_a_score |-> 0, document_b_score |-> 0, winner |-> "N/A",
     reasoning |-> <<"Error occurred: ", error_message>>,
     criterion_name |-> Absent]

\* the loop over required_fields
RequiredFields(criterion_eval) ==
    [criterion_eval EXCEPT
        !.document_a_score = IF @ = JAbsent THEN JNum(0) ELSE @,
        !.document_b_score = IF @ = JAbsent THEN JNum(0) ELSE @,
        !.winner = IF @ = Absent THEN "N/A" ELSE @]

ValidateCriterionEvaluation(criterion_eval) ==
    LET filled == RequiredFields(criterion_eval)
        a == Float(filled.document_a_score)
        b == Float(filled.document_b_score)
        numeric == a # <<>> /\ b # <<>>
    IN [document_a_score |-> IF numeric THEN a[1] ELSE 0,
        document_b_score |-> IF numeric THEN b[1] ELSE 0,
        winner |-> filled.winner,
        reasoning |-> filled.reasoning,
        criterion_name |-> filled.criterion_name]

Returned(evaluation) == [raised |-> FALSE, value |-> <<evaluation>>]
Raised == [raised |-> TRUE, value |-> <<>>]

\* variant: the request and the parsing are not inside a try block
AfterReplyUncaught(raw) ==
    IF raw.kind # "json" THEN Raised
    ELSE Returned(ValidateCriterionEvaluation(raw))

\* evaluate from the request on: the try block and its except branch
AfterReply(raw) ==
    IF raw.kind # "json"
    THEN Returned(CreateErrorEvaluation("Error during evaluation"))
    ELSE Returned(ValidateCriterionEvaluation(raw))

NoEval == [pc |-> "none", raw |-> RawRaise, out |-> Raised]

\* evaluate is entered: the key check and its early return
EvaluateCall ==
    /\ ev.pc = "none"
    /\ ev' = IF ~EvaluatorValidateApiKey
             THEN [pc |-> "returned", raw |-> RawRaise,
                   out |-> Returned(CreateErrorEvaluation(
                                        "Invalid or missing API key"))]
             ELSE [ev EXCEPT !.pc = "request"]

\* the chat completion answers or fails, and evaluate returns
EvaluateReply(raw) ==
    /\ ev.pc = "request"
    /\ ev' = [pc |-> "returned", raw |-> raw, out |-> AfterReply(raw)]

----------------------------------------------------------------------------
(* DocumentComparator *)

\* variant: a key of exactly the minimum length passes
ValidateApiKeyLax == openai_api_key >= MinKeyLen

ValidateApiKey == openai_api_key > MinKeyLen

\* variant: the score is not divided by the maximum score
WeightedScoreUnscaled(score, weight) == score * weight

\* (score / 5) * weight; the catalog weights are multiples of 5
WeightedScore(score, weight) == (score * weight) \div MaxScore

RECURSIVE WeightedTotal(_, _, _)
WeightedTotal(evals, field, k) ==
    IF k = 0 THEN 0
    ELSE WeightedTotal(evals, field, k - 1)
           + WeightedScore(evals[k][field], criteria[k].weight)

\* variant: equal totals are not recognised as a tie
DetermineWinnerNoTie(a, b) == IF a > b THEN "A" ELSE "B"

DetermineWinner(a, b) == IF a = b THEN "Tie" ELSE IF a > b THEN "A" ELSE "B"

\* self.documents[doc1_name] / self.documents[doc2_name] raise KeyError
CompareRaises(doc1, doc2) ==
    /\ ValidateApiKey
    /\ Len(criteria) > 0
    /\ (doc1 \notin loaded \/ doc2 \notin loaded)

\* the result returned when the key check fails
InvalidKeyResult(doc1, doc2) ==
    [document_a |-> doc1, document_b |-> doc2, winner |-> "Error",
     error |-> "Invalid OpenAI API key",
     overall_scores |-> <<0, 0>>, criterion_evaluations |-> <<>>,
     criterion_scores |-> <<>>]

\* next(... for ce in all_criterion_evaluations if ce.get('criterion_name')
\* == name, 0): the scores of the first evaluation under the name, else 0
RECURSIVE FirstNamed(_, _, _)
FirstNamed(evals, k, name) ==
    IF k > Len(evals) THEN <<0, 0>>
    ELSE IF evals[k].criterion_name = name
    THEN <<evals[k].document_a_score, evals[k].document_b_score>>
    ELSE FirstNamed(evals, k + 1, name)

\* criterion_scores, in catalog order
CriterionScores(evals) ==
    [k \in 1..Len(criteria) |-> FirstNamed(evals, 1, criteria[k].name)]

\* the result built from the accumulated totals and evaluations
ComparisonResult(doc1, doc2, a, b, evals) ==
    LET overall_winner == DetermineWinner(a, b)
        winner_name == IF overall_winner = "A" THEN doc1 ELSE doc2
    IN [document_a |-> doc1, document_b |-> doc2,
        winner |-> IF overall_winner # "Tie" THEN winner_name ELSE "Tie",
        error |-> "N/A",
        overall_scores |-> <<a, b>>, criterion_evaluations |-> evals,
        criterion_scores |-> CriterionScores(evals)]

\* criterion k's evaluation gets the catalog name unless it brings one
LabelEvaluation(criterion_eval, k) ==
    IF criterion_eval.criterion_name = Absent
    THEN [criterion_eval EXCEPT !.criterion_name = criteria[k].name]
    ELSE criterion_eval

Labelled(reply) == [k \in 1..Len(reply) |-> LabelEvaluation(reply[k], k)]

Compare(doc1, doc2, reply) ==
    IF ~ValidateApiKey
    THEN InvalidKeyResult(doc1, doc2)
    ELSE ComparisonResult(doc1, doc2,
             WeightedTotal(reply, "document_a_score", Len(criteria)),
             WeightedTotal(reply, "document_b_score", Len(criteria)),
             Labelled(reply))

(* the response limit of one judge call *)

ContextTokens == 4096
ReservedTokens == 50
MinResponseTokens == 1000
MaxResponseTokens == 1500

Max(x, y) == IF x >= y THEN x ELSE y
Min(x, y) == IF x <= y THEN x ELSE y

\* variant: no minimum for the response limit
MaxTokensNoFloor(prompt_tokens) ==
    Min(ContextTokens - prompt_tokens - ReservedTokens, MaxResponseTokens)

\* max(1000, min(4096 - prompt_tokens - 50, 1500))
MaxTokens(prompt_tokens) ==
    Max(MinResponseTokens,
        Min(ContextTokens - prompt_tokens - ReservedTokens, MaxResponseTokens))

\* the tokenizer counts the tokens of the generated prompt
TokenizePrompt(prompt_tokens) ==
    /\ budget.pc = "none"
    /\ budget' = [pc |-> "prompt", prompt_tokens |-> prompt_tokens,
                  max_tokens |-> 0]
    /\ UNCHANGED <<rankVars, openai_api_key, api, threads, ev, cmp, report>>

ComputeMaxTokens ==
    /\ budget.pc = "prompt"
    /\ budget' = [budget EXCEPT !.pc = "computed",
                     !.max_tokens = MaxTokens(budget.prompt_tokens)]
    /\ UNCHANGED <<rankVars, openai_api_key, api, threads, ev, cmp, report>>

(* compare, one loop iteration at a time *)

NoCompare ==
    [pc |-> "none", doc1 |-> "", doc2 |-> "", k |-> 0,
     criterion_evaluations |-> <<>>, weighted_a |-> 0, weighted_b |-> 0,
     evaluate_calls |-> 0, out |-> Raised]

\* compare is entered: the key check and its early return
CompareCall(doc1, doc2) ==
    /\ cmp.pc = "none"
    /\ cmp' = IF ~ValidateApiKey
              THEN [NoCompare EXCEPT !.pc = "returned", !.doc1 = doc1,
                        !.doc2 = doc2,
                        !.out = Returned(InvalidKeyResult(doc1, doc2))]
              ELSE [NoCompare EXCEPT !.pc = "loop", !.doc1 = doc1,
                        !.doc2 = doc2, !.k = 1]
    /\ UNCHANGED <<rankVars, openai_api_key, api, threads, ev, budget, report>>

\* the head of an iteration: the document lookup, then the call of evaluate
CompareCriterion ==
    /\ cmp.pc = "loop"
    /\ cmp.k <= Len(criteria)
    /\ IF cmp.doc1 \notin loaded \/ cmp.doc2 \notin loaded
       THEN /\ cmp' = [cmp EXCEPT !.pc = "returned", !.out = Raised]
            /\ UNCHANGED ev
       ELSE /\ cmp' = [cmp EXCEPT !.pc = "evaluate",
                           !.evaluate_calls = @ + 1]
            /\ EvaluateCall
    /\ UNCHANGED <<rankVars, openai_api_key, api, threads, budget, report>>

\* the judge answers the evaluate call in progress
CompareEvaluate(raw) ==
    /\ cmp.pc = "evaluate"
    /\ EvaluateReply(raw)
    /\ UNCHANGED <<rankVars, openai_api_key, api, threads, cmp, budget, report>>

\* the rest of the iteration: label, weigh, accumulate, store
CompareAccumulate ==
    /\ cmp.pc = "evaluate"
    /\ ev.pc = "returned"
    /\ IF ev.out.raised
       THEN cmp' = [cmp EXCEPT !.pc = "returned", !.out = Raised]
       ELSE LET criterion_eval == LabelEvaluation(ev.out.value[1], cmp.k)
                criterion_weight == criteria[cmp.k].weight
            IN cmp' = [cmp EXCEPT
                   !.pc = "loop",
                   !.k = @ + 1,
                   !.weighted_a = @ + WeightedScore(
                       criterion_eval.document_a_score, criterion_weight),
                   !.weighted_b = @ + WeightedScore(
                       criterion_eval.document_b_score, criterion_weight),
                   !.criterion_evaluations = Append(@, criterion_eval)]
    /\ ev' = NoEval
    /\ UNCHANGED <<rankVars, openai_api_key, api, threads, budget, report>>

\* after the loop: the winner and the result
CompareReturn ==
    /\ cmp.pc = "loop"
    /\ cmp.k > Len(criteria)
    /\ cmp' = [cmp EXCEPT !.pc = "returned",
                  !.out = Returned(ComparisonResult(cmp.doc1, cmp.doc2,
                              cmp.weighted_a, cmp.weighted_b,
                              cmp.criterion_evaluations))]
    /\ UNCHANGED <<rankVars, openai_api_key, api, threads, ev, budget, report>>

----------------------------------------------------------------------------
(* ComparisonEngine *)

\* the except branch of compare_documents; it has no evaluation_details
ErrorResult(doc1, doc2) ==
    [document_a |-> doc1, document_b |-> doc2, winner |-> "None",
     error |-> "Error comparing", overall_scores |-> <<>>,
     criterion_evaluations |-> <<>>, criterion_scores |-> <<>>]

InvertedResult(result, doc1, doc2) ==
    [result EXCEPT !.document_a = doc1, !.document_b = doc2,
        !.winner = IF result.winner = result.document_a THEN doc1
                   ELSE IF result.winner = result.document_b THEN doc2
                   ELSE result.winner]

RECURSIVE FindDirectFrom(_, _, _, _)
FindDirectFrom(log, k, doc1, doc2) ==
    IF k > Len(log) THEN <<>>
    ELSE IF log[k].document_a = doc1 /\ log[k].document_b = doc2
         THEN <<log[k]>>
    ELSE FindDirectFrom(log, k + 1, doc1, doc2)

\* variant: the lookup forgets the reverse match
FindDirectOnly(log, doc1, doc2) == FindDirectFrom(log, 1, doc1, doc2)

\* <<>> is None, <<r>> is the result found
RECURSIVE FindFrom(_, _, _, _)
FindFrom(log, k, doc1, doc2) ==
    IF k > Len(log) THEN <<>>
    ELSE IF log[k].document_a = doc1 /\ log[k].document_b = doc2
         THEN <<log[k]>>
    ELSE IF log[k].document_a = doc2 /\ log[k].document_b = doc1
         THEN <<InvertedResult(log[k], doc1, doc2)>>
    ELSE FindFrom(log, k + 1, doc1, doc2)

FindExistingComparison(log, doc1, doc2) == FindFrom(log, 1, doc1, doc2)

HitKind(log, k, doc1, doc2) ==
    IF log[k].document_a = doc1 /\ log[k].document_b = doc2 THEN "direct"
    ELSE "reverse"

RECURSIVE FirstMatch(_, _, _, _)
FirstMatch(log, k, doc1, doc2) ==
    IF k > Len(log) THEN 0
    ELSE IF {log[k].document_a, log[k].document_b} = {doc1, doc2} THEN k
    ELSE FirstMatch(log, k + 1, doc1, doc2)

\* the judge's verdicts for a pair: free, or fixed once given when stubbed
Replies(doc1, doc2) ==
    IF stubbed /\ <<doc1, doc2>> \in DOMAIN stub
    THEN {stub[<<doc1, doc2>>]}
    ELSE JudgeReplies

JudgeAsked(doc1, doc2) ==
    /\ ValidateApiKey
    /\ ~CompareRaises(doc1, doc2)
    /\ Len(criteria) > 0

\* variant: the newest result is put in front of the log
LogInFront(log, result) == <<result>> \o log

\* self.comparison_results.append(result)
\* variant: the result is returned without being logged
LogNothing(log, result) == log

LogAppend(log, result) == Append(log, result)

\* variant: a miss has the pair evaluated in both orientations
InvocationsBothOrders(doc1, doc2) == << <<doc1, doc2>>, <<doc2, doc1>> >>

\* the calls of DocumentComparator.compare that one cache miss makes
Invocations(doc1, doc2) == << <<doc1, doc2>> >>

\* ComparisonEngine.compare_documents; the returned result is lastCall'.result
CompareDocuments(doc1, doc2) ==
    LET existing == FindExistingComparison(comparison_results, doc1, doc2) IN
    /\ IF existing # <<>>
       THEN /\ lastCall' = [doc1 |-> doc1, doc2 |-> doc2, result |-> existing,
                   hit |-> HitKind(comparison_results,
                              FirstMatch(comparison_results, 1, doc1, doc2),
                              doc1, doc2)]
            /\ UNCHANGED <<comparison_results, calls, stub>>
       ELSE /\ calls' = calls \o Invocations(doc1, doc2)
            /\ \E reply \in Replies(doc1, doc2) :
                 LET result == IF CompareRaises(doc1, doc2)
                               THEN ErrorResult(doc1, doc2)
                               ELSE Compare(doc1, doc2, reply)
                 IN /\ comparison_results' = LogAppend(comparison_results, result)
                    /\ lastCall' = [doc1 |-> doc1, doc2 |-> doc2,
                                    result |-> <<result>>, hit |-> "miss"]
                    /\ stub' = IF stubbed /\ JudgeAsked(doc1, doc2)
                               THEN [p \in DOMAIN stub \cup {<<doc1, doc2>>} |->
                                       IF p = <<doc1, doc2>> THEN reply ELSE stub[p]]
                               ELSE stub

\* variant: the comparator reports the loser as the better document
ComparisonFunctionSwapped(result, doc1, doc2) ==
    IF result.error # "N/A" THEN 0
    ELSE IF result.winner = "Tie" \/ result.winner = "None" THEN 0
    ELSE IF result.winner = doc1 THEN -1
    ELSE 1

\* variant: the comparator does not look at the error field
ComparisonFunctionNoErrorCheck(result, doc1, doc2) ==
    IF result.winner = "Tie" \/ result.winner = "None" THEN 0
    ELSE IF result.winner = doc1 THEN 1
    ELSE -1

\* variant: a win of the second document is reported as a tie
ComparisonFunctionSecondWinTie(result, doc1, doc2) ==
    IF result.error # "N/A" THEN 0
    ELSE IF result.winner = "Tie" \/ result.winner = "None" THEN 0
    ELSE IF result.winner = doc1 THEN 1
    ELSE 0

\* the value _comparison_function derives from a compare_documents result
ComparisonFunction(result, doc1, doc2) ==
    IF result.error # "N/A" THEN 0
    ELSE IF result.winner = "Tie" \/ result.winner = "None" THEN 0
    ELSE IF result.winner = doc1 THEN 1
    ELSE -1

----------------------------------------------------------------------------
(* mergesort_with_comparator *)

Frame(items) ==
    [items |-> items, phase |-> "call", left |-> <<>>, right |-> <<>>,
     i |-> 0, j |-> 0, result |-> <<>>]

Mid(items) == Len(items) \div 2
LeftPart(items) == SubSeq(items, 1, Mid(items))
RightPart(items) == SubSeq(items, Mid(items) + 1, Len(items))

Top == stack[Len(stack)]
Pop(s) == SubSeq(s, 1, Len(s) - 1)
SetTop(s, f) == [s EXCEPT ![Len(s)] = f]

\* a frame returns value to its caller
Deliver(value) ==
    IF Len(stack) = 1
    THEN /\ stack' = <<>>
         /\ ranked' = value
         /\ pc' = "done"
    ELSE LET parent == stack[Len(stack) - 1]
             rest == Pop(stack)
         IN /\ UNCHANGED <<ranked, pc>>
            /\ IF parent.phase = "left"
               THEN stack' = Append(
                        SetTop(rest, [parent EXCEPT !.left = value, !.phase = "right"]),
                        Frame(RightPart(parent.items)))
               ELSE stack' = SetTop(rest,
                        [parent EXCEPT !.right = value, !.phase = "merge"])

\* variant: the short-circuit returns an empty ranking
StartReturnsEmpty ==
    /\ pc = "idle"
    /\ IF Len(documents) <= 1
       THEN /\ ranked' = <<>>
            /\ pc' = "done"
            /\ UNCHANGED stack
       ELSE /\ stack' = <<Frame(documents)>>
            /\ pc' = "running"
            /\ UNCHANGED ranked
    /\ UNCHANGED <<auxVars, documents, engineVars, comparison_results, calls, direct,
                   lastCall, stub, stubVars>>

\* compare_with_mergesort up to the call of mergesort_with_comparator
Start ==
    /\ pc = "idle"
    /\ IF Len(documents) <= 1
       THEN /\ ranked' = documents
            /\ pc' = "done"
            /\ UNCHANGED stack
       ELSE /\ stack' = <<Frame(documents)>>
            /\ pc' = "running"
            /\ UNCHANGED ranked
    /\ UNCHANGED <<auxVars, documents, engineVars, comparison_results, calls, direct,
                   lastCall, stub, stubVars>>

ReturnBase ==
    /\ pc = "running"
    /\ Top.phase = "call"
    /\ Len(Top.items) <= 1
    /\ Deliver(Top.items)
    /\ UNCHANGED <<auxVars, documents, engineVars, comparison_results, calls, direct,
                   lastCall, stub, stubVars>>

Split ==
    /\ pc = "running"
    /\ Top.phase = "call"
    /\ Len(Top.items) > 1
    /\ stack' = Append(SetTop(stack, [Top EXCEPT !.phase = "left"]),
                       Frame(LeftPart(Top.items)))
    /\ UNCHANGED <<auxVars, documents, engineVars, comparison_results, calls, direct,
                   lastCall, stub, stubVars, ranked, pc>>

\* variant: a tie prefers the right operand
TakeLeftStrict(comparison_result) == comparison_result > 0

\* variant: the left head is taken when the right one is preferred
TakeLeftOnLoss(comparison_result) == comparison_result <= 0

TakeLeft(comparison_result) == comparison_result >= 0

\* variant: the loop body has no branch for a tie
MergeEmitNoTie(f, comparison_result) ==
    IF comparison_result > 0
    THEN [f EXCEPT !.result = Append(f.result, f.left[f.i + 1]), !.i = f.i + 1]
    ELSE IF comparison_result < 0
    THEN [f EXCEPT !.result = Append(f.result, f.right[f.j + 1]), !.j = f.j + 1]
    ELSE f

\* the body of the merge loop after the comparator has answered
MergeEmit(f, comparison_result) ==
    IF TakeLeft(comparison_result)
    THEN [f EXCEPT !.result = Append(f.result, f.left[f.i + 1]), !.i = f.i + 1]
    ELSE [f EXCEPT !.result = Append(f.result, f.right[f.j + 1]), !.j = f.j + 1]

\* variant: a tie is broken by an arbitrary choice
MergeStepArbitraryTie ==
    /\ pc = "running"
    /\ Top.phase = "merge"
    /\ Top.i < Len(Top.left) /\ Top.j < Len(Top.right)
    /\ LET doc1 == Top.left[Top.i + 1]
           doc2 == Top.right[Top.j + 1]
       IN /\ IF doc1 = doc2
             THEN UNCHANGED <<comparison_results, calls, lastCall, stub>>
             ELSE CompareDocuments(doc1, doc2)
          /\ \E c \in {-1, 0, 1} :
               /\ LET r == IF doc1 = doc2 THEN 0
                           ELSE ComparisonFunction(lastCall'.result[1], doc1, doc2)
                  IN IF r = 0 THEN c # 0 ELSE c = r
               /\ stack' = SetTop(stack, MergeEmit(Top, c))
    /\ UNCHANGED <<auxVars, documents, engineVars, stubVars, ranked, pc, direct>>

\* one iteration of the while loop of _merge_with_comparator
MergeStep ==
    /\ pc = "running"
    /\ Top.phase = "merge"
    /\ Top.i < Len(Top.left) /\ Top.j < Len(Top.right)
    /\ LET doc1 == Top.left[Top.i + 1]
           doc2 == Top.right[Top.j + 1]
       IN IF doc1 = doc2
          THEN /\ stack' = SetTop(stack, MergeEmit(Top, 0))
               /\ UNCHANGED <<comparison_results, calls, lastCall, stub>>
          ELSE /\ CompareDocuments(doc1, doc2)
               /\ stack' = SetTop(stack,
                     MergeEmit(Top, ComparisonFunction(lastCall'.result[1], doc1, doc2)))
    /\ UNCHANGED <<auxVars, documents, engineVars, stubVars, ranked, pc, direct>>

\* variant: the remainder of the right half is dropped
MergeTailLeftOnly(left, right, i, j) == SubSeq(left, i + 1, Len(left))

MergeTail(left, right, i, j) ==
    SubSeq(left, i + 1, Len(left)) \o SubSeq(right, j + 1, Len(right))

\* variant: the remainder is delivered in front of the merged part
MergeDoneTailFirst ==
    /\ pc = "running"
    /\ Top.phase = "merge"
    /\ ~(Top.i < Len(Top.left) /\ Top.j < Len(Top.right))
    /\ Deliver(MergeTail(Top.left, Top.right, Top.i, Top.j) \o Top.result)
    /\ UNCHANGED <<auxVars, documents, engineVars, comparison_results, calls, direct,
                   lastCall, stub, stubVars>>

MergeDone ==
    /\ pc = "running"
    /\ Top.phase = "merge"
    /\ ~(Top.i < Len(Top.left) /\ Top.j < Len(Top.right))
    /\ Deliver(Top.result \o MergeTail(Top.left, Top.right, Top.i, Top.j))
    /\ UNCHANGED <<auxVars, documents, engineVars, comparison_results, calls, direct,
                   lastCall, stub, stubVars>>

(* compare_documents called from several threads on one engine *)

ThreadIds == {1, 2}

NoThread == [pc |-> "idle", doc1 |-> "", doc2 |-> "", result |-> <<>>]

\* a thread enters compare_documents
ThreadCall(t, doc1, doc2) ==
    /\ threads[t].pc = "idle"
    /\ threads' = [threads EXCEPT ![t] =
                      [pc |-> "find", doc1 |-> doc1, doc2 |-> doc2,
                       result |-> <<>>]]
    /\ UNCHANGED <<rankVars, openai_api_key, api, ev, cmp, budget, report>>

\* the lookup in the log, and the return on a hit
ThreadFind(t) ==
    /\ threads[t].pc = "find"
    /\ LET existing == FindExistingComparison(comparison_results,
                            threads[t].doc1, threads[t].doc2)
       IN threads' = [threads EXCEPT ![t] =
                         IF existing # <<>>
                         THEN [@ EXCEPT !.pc = "returned", !.result = existing]
                         ELSE [@ EXCEPT !.pc = "compare"]]
    /\ UNCHANGED <<rankVars, openai_api_key, api, ev, cmp, budget, report>>

\* the call of DocumentComparator.compare, or the exception it raises
ThreadCompare(t) ==
    /\ threads[t].pc = "compare"
    /\ calls' = calls \o Invocations(threads[t].doc1, threads[t].doc2)
    /\ \E reply \in JudgeReplies :
         LET result == IF CompareRaises(threads[t].doc1, threads[t].doc2)
                       THEN ErrorResult(threads[t].doc1, threads[t].doc2)
                       ELSE Compare(threads[t].doc1, threads[t].doc2, reply)
         IN threads' = [threads EXCEPT ![t] =
                           [@ EXCEPT !.pc = "append", !.result = <<result>>]]
    /\ UNCHANGED <<documents, engineVars, comparison_results, pc, stack, ranked,
                   direct, lastCall, stubVars, stub, ev, cmp, budget, report,
                   api>>

\* the append to the log, and the return
ThreadAppend(t) ==
    /\ threads[t].pc = "append"
    /\ comparison_results' = LogAppend(comparison_results, threads[t].result[1])
    /\ threads' = [threads EXCEPT ![t] = [@ EXCEPT !.pc = "returned"]]
    /\ UNCHANGED <<documents, engineVars, calls, pc, stack, ranked,
                   direct, lastCall, stubVars, stub, ev, cmp, budget, report,
                   api>>

(* the compare-documents endpoint, before any request *)

NoApi == [pc |-> "idle", documents_data |-> <<>>, files |-> 0, pdfs |-> <<>>,
          use_uploaded_pdfs |-> FALSE, status |-> 0, error |-> ""]

(* MergesortRanker: the same recursion, with a merge that reads the winner *)

\* the branches of the loop body of MergesortRanker.merge
RankerEmit(f, winner) ==
    IF winner = "Tie"
    THEN [f EXCEPT !.result = Append(f.result, f.left[f.i + 1]), !.i = f.i + 1]
    ELSE IF winner = f.left[f.i + 1]
    THEN [f EXCEPT !.result = Append(f.result, f.left[f.i + 1]), !.i = f.i + 1]
    ELSE [f EXCEPT !.result = Append(f.result, f.right[f.j + 1]), !.j = f.j + 1]

\* one iteration of the while loop of MergesortRanker.merge
RankerMergeStep ==
    /\ pc = "running"
    /\ Top.phase = "merge"
    /\ Top.i < Len(Top.left) /\ Top.j < Len(Top.right)
    /\ CompareDocuments(Top.left[Top.i + 1], Top.right[Top.j + 1])
    /\ stack' = SetTop(stack, RankerEmit(Top, lastCall'.result[1].winner))
    /\ UNCHANGED <<auxVars, documents, engineVars, stubVars, ranked, pc, direct>>

NoCall == [doc1 |-> "", doc2 |-> "", result |-> <<>>, hit |-> "none"]

\* nothing in progress
NoBudget == [pc |-> "none", prompt_tokens |-> 0, max_tokens |-> 0]
NoReport == [pc |-> "none", win_counts |-> <<>>, criterion_summary |-> <<>>]

Init ==
    /\ documents \in InputLists
    /\ loaded \in SUBSET DocIds
    /\ openai_api_key \in KeyLens
    /\ comparison_results = <<>>
    /\ pc = "idle"
    /\ stack = <<>>
    /\ ranked = <<>>
    /\ calls = <<>>
    /\ direct = 0
    /\ lastCall = NoCall
    /\ stubbed = FALSE
    /\ stub = <<>>
    /\ runNo = 1
    /\ firstRanked = <<>>
    /\ ev = NoEval
    /\ cmp = NoCompare
    /\ budget = NoBudget
    /\ report = NoReport
    /\ threads = [t \in ThreadIds |-> NoThread]
    /\ api = NoApi

Next ==
    \/ Start
    \/ Split
    \/ ReturnBase
    \/ MergeStep
    \/ MergeDone

Spec == Init /\ [][Next]_vars

----------------------------------------------------------------------------
(* ComparisonDataProcessor *)

\* variant: a tie counts as a win for every document
WonByOrTied(comp, doc) == comp.winner \in {doc, "Tie"}

\* the filter of the count: comp.get("winner") == doc
WonBy(comp, doc) == comp.winner = doc

\* sum(1 for comp in comparison_results if ...)
RECURSIVE WinCount(_, _, _)
WinCount(doc, results, k) ==
    IF k = 0 THEN 0
    ELSE WinCount(doc, results, k - 1)
           + (IF WonBy(results[k], doc) THEN 1 ELSE 0)

\* a dict keyed by the documents of pdf_list
calculate_win_counts(pdf_list, results) ==
    [doc \in {pdf_list[n] : n \in 1..Len(pdf_list)} |->
        WinCount(doc, results, Len(results))]

\* the names of the criteria found in the logged evaluations
AllCriteria(results) ==
    UNION {{results[i].criterion_evaluations[j].criterion_name :
               j \in 1..Len(results[i].criterion_evaluations)} :
           i \in 1..Len(results)} \ {""}

\* the test a score must pass to enter the average
Counted(score) == score > 0

\* the inner loop: the document's scores for the criterion in evaluations
\* 1..j of one comparison
RECURSIVE EvaluationScores(_, _, _, _)
EvaluationScores(comp, doc, criterion, j) ==
    IF j = 0 THEN <<>>
    ELSE LET scores == EvaluationScores(comp, doc, criterion, j - 1)
             eval_item == comp.criterion_evaluations[j]
         IN IF eval_item.criterion_name # criterion THEN scores
            ELSE IF comp.document_a = doc
                 THEN IF Counted(eval_item.document_a_score)
                      THEN Append(scores, eval_item.document_a_score)
                      ELSE scores
            ELSE IF comp.document_b = doc
                 THEN IF Counted(eval_item.document_b_score)
                      THEN Append(scores, eval_item.document_b_score)
                      ELSE scores
            ELSE scores

\* the loop over the log
RECURSIVE DocumentScores(_, _, _, _)
DocumentScores(results, doc, criterion, i) ==
    IF i = 0 THEN <<>>
    ELSE DocumentScores(results, doc, criterion, i - 1)
           \o EvaluationScores(results[i], doc, criterion,
                               Len(results[i].criterion_evaluations))

RECURSIVE SumSeq(_, _)
SumSeq(scores, k) == IF k = 0 THEN 0 ELSE SumSeq(scores, k - 1) + scores[k]

\* round(total / count, 2), in hundredths; no tie can occur here, since
\* 100 * total / count would need a count that is a multiple of 8
RoundedMean(total, count) == (200 * total + count) \div (2 * count)

AverageScore(scores) ==
    IF Len(scores) > 0 THEN RoundedMean(SumSeq(scores, Len(scores)), Len(scores))
    ELSE 0

\* one entry per document: its "<criterion> Score" columns, in hundredths
prepare_criterion_summary(pdf_list, results) ==
    [doc \in {pdf_list[n] : n \in 1..Len(pdf_list)} |->
        [criterion \in AllCriteria(results) |->
            AverageScore(DocumentScores(results, doc, criterion,
                                        Len(results)))]]

\* the report is generated once the ranking has returned
GenerateReport ==
    /\ pc = "done"
    /\ report.pc = "none"
    /\ report' = [pc |-> "done",
                  win_counts |->
                      calculate_win_counts(documents, comparison_results),
                  criterion_summary |->
                      prepare_criterion_summary(documents, comparison_results)]
    /\ UNCHANGED <<rankVars, openai_api_key, api, threads, ev, cmp, budget>>

----------------------------------------------------------------------------
(* Callers of the engine, and a second run on a fresh engine *)

\* a caller's own compare_documents(doc1, doc2); the program is sequential,
\* so it happens before or after a ranking run, never inside one
Request(doc1, doc2) ==
    /\ pc \in {"idle", "done"}
    /\ direct < MaxRequests
    /\ direct' = direct + 1
    /\ CompareDocuments(doc1, doc2)
    /\ UNCHANGED <<auxVars, documents, engineVars, stubVars, pc, stack, ranked>>

\* the same input is ranked again by a newly constructed ComparisonEngine
Rerun ==
    /\ pc = "done"
    /\ runNo = 1
    /\ runNo' = 2
    /\ firstRanked' = ranked
    /\ comparison_results' = <<>>
    /\ calls' = <<>>
    /\ lastCall' = NoCall
    /\ stack' = <<>>
    /\ ranked' = <<>>
    /\ pc' = "idle"
    /\ UNCHANGED <<auxVars, documents, engineVars, direct, stubbed, stub>>

CacheLen == 2
MaxPromptTokens == 5000

\* the document store holds every document, or all but one
CacheLoaded == {DocIds, DocIds \ {"A"}}

InitCache ==
    /\ Init
    /\ Len(documents) <= CacheLen
    /\ loaded \in CacheLoaded

NextCache ==
    \/ Next
    \/ \E doc1 \in DocIds, doc2 \in DocIds : Request(doc1, doc2)

CacheSpec == InitCache /\ [][NextCache]_vars

InitTwice ==
    /\ documents \in InputLists
    /\ loaded \in SUBSET DocIds
    /\ openai_api_key \in KeyLens
    /\ comparison_results = <<>>
    /\ pc = "idle"
    /\ stack = <<>>
    /\ ranked = <<>>
    /\ calls = <<>>
    /\ direct = 0
    /\ lastCall = NoCall
    /\ stubbed = TRUE
    /\ stub = <<>>
    /\ runNo = 1
    /\ firstRanked = <<>>
    /\ ev = NoEval
    /\ cmp = NoCompare
    /\ budget = NoBudget
    /\ report = NoReport
    /\ threads = [t \in ThreadIds |-> NoThread]
    /\ api = NoApi

NextTwice ==
    \/ Next
    \/ Rerun

TwiceSpec == InitTwice /\ [][NextTwice]_vars

\* the interpreter always executes the next statement of the running call
\* one compare call on its own; the judge's answers are unconstrained
CompareDocs == {"A", "B"}

CompareReplies ==
    {RawRaise}
        \cup {RawJson(JNum(a), JNum(b), w, name) :
                 a \in {-1, 0, 3, 5, 7}, b \in {-1, 0, 3, 5, 7},
                 w \in {"A", "B", "Tie"}, name \in NameValues}

InitCompare ==
    /\ Init
    /\ documents = <<>>
    /\ loaded \in CacheLoaded

NextCompare ==
    \/ \E doc1 \in CompareDocs, doc2 \in CompareDocs : CompareCall(doc1, doc2)
    \/ CompareCriterion
    \/ \E raw \in CompareReplies : CompareEvaluate(raw)
    \/ CompareAccumulate
    \/ CompareReturn

CompareSpec == InitCompare /\ [][NextCompare]_vars

\* one evaluate call on its own, with every kind of reply
Evaluate ==
    /\ cmp.pc = "none"
    /\ EvaluateCall
    /\ UNCHANGED <<rankVars, openai_api_key, api, threads, cmp, budget, report>>

EvaluateAnswer(raw) ==
    /\ cmp.pc = "none"
    /\ EvaluateReply(raw)
    /\ UNCHANGED <<rankVars, openai_api_key, api, threads, cmp, budget, report>>

InitEval ==
    /\ Init
    /\ documents = <<>>
    /\ loaded = DocIds

NextEval ==
    \/ Evaluate
    \/ \E raw \in RawReplies : EvaluateAnswer(raw)

EvalSpec == InitEval /\ [][NextEval]_vars

\* the response limit for every prompt size up to MaxPromptTokens
InitBudget ==
    /\ Init
    /\ documents = <<>>
    /\ loaded = DocIds

NextBudget ==
    \/ \E prompt_tokens \in 1..MaxPromptTokens : TokenizePrompt(prompt_tokens)
    \/ ComputeMaxTokens

BudgetSpec == InitBudget /\ [][NextBudget]_vars

\* a ranking run followed by the report on its log
InitReport ==
    /\ Init
    /\ loaded \in CacheLoaded

NextReport ==
    \/ Next
    \/ GenerateReport

ReportSpec == InitReport /\ [][NextReport]_vars

\* MergesortRanker.rank_documents on a fresh engine
InitRanker ==
    /\ Init
    /\ loaded \in CacheLoaded

NextRanker ==
    \/ Start
    \/ Split
    \/ ReturnBase
    \/ RankerMergeStep
    \/ MergeDone

RankerSpec == InitRanker /\ [][NextRanker]_vars

\* two threads, one compare_documents call each, on a fresh engine
InitThreads ==
    /\ Init
    /\ documents = <<>>
    /\ loaded \in CacheLoaded

NextThreads ==
    \E t \in ThreadIds :
        \/ \E doc1 \in CompareDocs : \E doc2 \in CompareDocs \ {doc1} :
              ThreadCall(t, doc1, doc2)
        \/ ThreadFind(t)
        \/ ThreadCompare(t)
        \/ ThreadAppend(t)

ThreadSpec == InitThreads /\ [][NextThreads]_vars

\* the upload folder: the number of entries os.listdir returns, and the
\* documents load_pdfs extracts from the entries that are readable PDFs
UploadFolders ==
    { [files |-> 0, pdfs |-> <<>>],
      [files |-> 1, pdfs |-> <<"A">>],
      [files |-> 2, pdfs |-> <<"A">>],
      [files |-> 2, pdfs |-> <<"A", "B">>] }

\* list(pdf_contents.keys()) after pdf_contents[doc_name] = ... for every
\* entry of the request: each name once, at its first position
RECURSIVE Keys(_)
Keys(documents_data) ==
    IF documents_data = <<>> THEN <<>>
    ELSE LET front == Keys(SubSeq(documents_data, 1, Len(documents_data) - 1))
             doc_name == documents_data[Len(documents_data)]
         IN IF \E k \in 1..Len(front) : front[k] = doc_name
            THEN front
            ELSE Append(front, doc_name)

ProvideTwo == "Provide at least two documents for comparison"

\* compare_documents (the endpoint) up to the call of compare_with_mergesort
EndpointRequest(documents_data, folder) ==
    /\ api.pc = "idle"
    /\ IF Len(documents_data) < 2 /\ folder.files < 2
       THEN /\ api' = [api EXCEPT !.pc = "answered",
                                  !.documents_data = documents_data,
                                  !.files = folder.files, !.pdfs = folder.pdfs,
                                  !.status = 400, !.error = ProvideTwo]
            /\ UNCHANGED <<documents, loaded>>
       ELSE LET use_uploaded_pdfs == Len(documents_data) < 2
                pdf_list == IF use_uploaded_pdfs THEN folder.pdfs
                            ELSE Keys(documents_data)
            IN /\ api' = [api EXCEPT !.pc = "ranking",
                                     !.documents_data = documents_data,
                                     !.files = folder.files,
                                     !.pdfs = folder.pdfs,
                                     !.use_uploaded_pdfs = use_uploaded_pdfs]
               /\ documents' = pdf_list
               /\ loaded' = {pdf_list[k] : k \in 1..Len(pdf_list)}
    /\ UNCHANGED <<openai_api_key, comparison_results, pc, stack, ranked, calls,
                   direct, lastCall, stub, stubVars, ev, cmp, budget, report,
                   threads>>

\* compare_with_mergesort on the engine the endpoint built
EndpointRank ==
    /\ api.pc = "ranking"
    /\ Next

\* the report and the answer; an exception while the report is written or
\* stored is answered with 500
EndpointAnswer ==
    /\ api.pc = "ranking"
    /\ pc = "done"
    /\ \E status \in {200, 500} :
         api' = [api EXCEPT !.pc = "answered", !.status = status]
    /\ UNCHANGED <<rankVars, openai_api_key, ev, cmp, budget, report, threads>>

InitEndpoint ==
    /\ Init
    /\ documents = <<>>
    /\ loaded = {}

NextEndpoint ==
    \/ \E documents_data \in InputLists, folder \in UploadFolders :
          EndpointRequest(documents_data, folder)
    \/ EndpointRank
    \/ EndpointAnswer

EndpointSpec == InitEndpoint /\ [][NextEndpoint]_vars

LiveSpec == Init /\ [][Next]_vars /\ WF_vars(Next)

----------------------------------------------------------------------------
(* Properties *)

Count(s, d) == Cardinality({k \in 1..Len(s) : s[k] = d})

IsPermutation(s, t) ==
    /\ Len(s) = Len(t)
    /\ \A d \in DocIds : Count(s, d) = Count(t, d)

Distinct(s) == \A m, n \in 1..Len(s) : m # n => s[m] # s[n]

Elems(s) == {s[k] : k \in 1..Len(s)}

Log == comparison_results

\* C1: the list returned by compare_with_mergesort is a permutation of the
\* input list: same length, no id lost, no id duplicated, whatever the
\* judge answers (wins, ties, errors, non-transitive answers).
C1_RankedIsPermutation == pc = "done" => IsPermutation(ranked, documents)

C1_Witness ==
    /\ pc = "done"
    /\ Len(documents) >= 3
    /\ ranked # documents
    /\ \E k \in 1..Len(Log) : Log[k].error # "N/A"
    /\ \E k \in 1..Len(Log) : Log[k].winner = Log[k].document_b

TotalOrders ==
    {o \in [1..Cardinality(DocIds) -> DocIds] :
        \A m, n \in DOMAIN o : m # n => o[m] # o[n]}

Pos(o, d) == CHOOSE k \in DOMAIN o : o[k] = d

\* every logged verdict names the document that o puts first; no tie, no error
Follows(o) ==
    \A k \in 1..Len(Log) :
        /\ Log[k].error = "N/A"
        /\ Log[k].winner =
              IF Pos(o, Log[k].document_a) < Pos(o, Log[k].document_b)
              THEN Log[k].document_a ELSE Log[k].document_b

InDocuments(d) == d \in Elems(documents)

SortedBy(o) == SelectSeq(o, InDocuments)

\* C2: when every verdict of the run follows one strict total order on the
\* documents (the better document wins, no ties, no errors), the ranking of
\* pairwise-distinct documents is exactly that order, best first, for every
\* arrangement of the input list.
C2_TotalOrderRecovered ==
    (pc = "done" /\ Distinct(documents)) =>
        \A o \in TotalOrders : Follows(o) => ranked = SortedBy(o)

C2_Witness ==
    /\ pc = "done"
    /\ Len(documents) = 4
    /\ Distinct(documents)
    /\ Len(Log) = 5
    /\ ranked[1] = documents[4]
    /\ \E o \in TotalOrders : Follows(o)

UnorderedPair(c) == {c[1], c[2]}

\* C3: DocumentComparator.compare is invoked at most once per unordered pair
\* of documents, whichever order the pair is requested in and also when the
\* first evaluation ended in an error result.
C3_CompareOncePerPair ==
    \A m, n \in 1..Len(calls) :
        m # n => UnorderedPair(calls[m]) # UnorderedPair(calls[n])

C3_Witness ==
    /\ lastCall.hit = "reverse"
    /\ lastCall.result[1].error # "N/A"
    /\ direct = 1
    /\ pc = "done"
    /\ Len(calls) = 1

\* the log entry that answered the last request
LoggedFor(call) == Log[FirstMatch(Log, 1, call.doc1, call.doc2)]

\* C4: a reverse-order cache hit compare_documents(Y, X) returns a result
\* with document_a = Y and document_b = X whose winner is the document that
\* won the logged (X, Y) comparison; a tie or error outcome stays unchanged.
C4_ReverseHitSameWinner ==
    lastCall.hit = "reverse" =>
        /\ lastCall.result[1].document_a = lastCall.doc1
        /\ lastCall.result[1].document_b = lastCall.doc2
        /\ lastCall.result[1].winner = LoggedFor(lastCall).winner

\* C5: a reverse-order cache hit compare_documents(Y, X) returns the weighted
\* totals swapped along with the ids: overall_scores.document_a is the total
\* of Y in the logged (X, Y) comparison and overall_scores.document_b that of X.
C5_ReverseHitScoresSwapped ==
    (lastCall.hit = "reverse" /\ LoggedFor(lastCall).overall_scores # <<>>) =>
        lastCall.result[1].overall_scores =
            << LoggedFor(lastCall).overall_scores[2],
               LoggedFor(lastCall).overall_scores[1] >>

AllTies == \A k \in 1..Len(Log) : Log[k].winner = "Tie" /\ Log[k].error = "N/A"

\* C6: when the judge reports a tie for every comparison, the run ends and
\* returns the input list in its original order.
C6_AllTiesKeepOrder == (pc = "done" /\ AllTies) => ranked = documents

C6_Witness ==
    /\ pc = "done"
    /\ Len(documents) = 4
    /\ Distinct(documents)
    /\ Len(Log) = 4
    /\ AllTies
    /\ ranked = documents

InMergeLoop ==
    /\ pc = "running"
    /\ Top.phase = "merge"
    /\ Top.i < Len(Top.left) /\ Top.j < Len(Top.right)

\* C7: a merge step whose pairwise result carries an error sentinel (winner
\* "Error" with the invalid-credentials text, or winner None from the engine's
\* exception handler) emits the head of the left half and advances the left
\* pointer only, exactly as for a tie.
C7_ErrorTreatedAsTie ==
    [][ ( /\ InMergeLoop
          /\ Top.left[Top.i + 1] # Top.right[Top.j + 1]
          /\ lastCall'.result[1].error # "N/A" )
        => stack' = SetTop(stack,
              [Top EXCEPT !.result = Append(Top.result, Top.left[Top.i + 1]),
                          !.i = Top.i + 1]) ]_vars

C7_Witness ==
    /\ pc = "running"
    /\ Top.phase = "merge"
    /\ lastCall.hit = "miss"
    /\ lastCall.result[1].winner = "Error"
    /\ Top.i >= 2
    /\ Top.j = 0
    /\ Top.result[Len(Top.result)] = lastCall.doc1

\* C8: every run of compare_with_mergesort ends, also when the judge fails on
\* every call or answers inconsistently, and returns a list as long as the
\* input; each merge step emits exactly one document.
C8_Terminates ==
    /\ <>(pc = "done" /\ Len(ranked) = Len(documents))
    /\ [][ InMergeLoop =>
             Len(stack'[Len(stack)].result) = Len(Top.result) + 1 ]_vars

C8_Witness ==
    /\ pc = "done"
    /\ Len(documents) = 4
    /\ Len(Log) >= 4
    /\ \A k \in 1..Len(Log) : Log[k].error # "N/A"

\* C9: on an empty or one-element list compare_with_mergesort returns the
\* same list, makes no comparator or judge call and leaves the log empty.
C9_TrivialInputs ==
    (pc = "done" /\ Len(documents) <= 1) =>
        /\ ranked = documents
        /\ calls = <<>>
        /\ lastCall = NoCall
        /\ comparison_results = <<>>

C9_Witness ==
    /\ pc = "done"
    /\ Len(documents) = 1
    /\ ranked = documents

\* C10: two runs on the same input list, each on a fresh engine and with the
\* same deterministic stub judge, return the same ranked list.
C10_SameRankingTwice == (pc = "done" /\ runNo = 2) => ranked = firstRanked

C10_Witness ==
    /\ pc = "done"
    /\ runNo = 2
    /\ Len(documents) = 4
    /\ Distinct(documents)
    /\ ranked # documents
    /\ \E k \in 1..Len(Log) : Log[k].winner = "Tie"
    /\ ranked = firstRanked

----------------------------------------------------------------------------
(* DocumentComparator.compare *)

CompareReturned == cmp.pc = "returned" /\ ~cmp.out.raised
CompareResult == cmp.out.value[1]

RECURSIVE ScoreTimesWeight(_, _, _)
ScoreTimesWeight(evals, field, k) ==
    IF k = 0 THEN 0
    ELSE ScoreTimesWeight(evals, field, k - 1)
           + evals[k][field] * criteria[k].weight

\* C11: when compare returns a result for a valid key, five times each
\* document's weighted total equals the sum over all criteria of
\* score * weight, and with the weights 60 and 40 and the scores
\* A = (5, 0), B = (0, 5) the totals are 60 for A and 40 for B
C11_WeightedTotals ==
    (CompareReturned /\ CompareResult.error = "N/A") =>
        LET evals == CompareResult.criterion_evaluations
            totals == CompareResult.overall_scores
        IN /\ Len(evals) = Len(criteria)
           /\ MaxScore * totals[1]
                = ScoreTimesWeight(evals, "document_a_score", Len(criteria))
           /\ MaxScore * totals[2]
                = ScoreTimesWeight(evals, "document_b_score", Len(criteria))
           /\ ( /\ criteria[1].weight = 60 /\ criteria[2].weight = 40
                /\ evals[1].document_a_score = 5
                /\ evals[2].document_a_score = 0
                /\ evals[1].document_b_score = 0
                /\ evals[2].document_b_score = 5 ) => totals = <<60, 40>>

C11_Witness ==
    /\ CompareReturned
    /\ CompareResult.error = "N/A"
    /\ CompareResult.criterion_evaluations[1].document_a_score = 5
    /\ CompareResult.criterion_evaluations[2].document_a_score = 0
    /\ CompareResult.criterion_evaluations[1].document_b_score = 0
    /\ CompareResult.criterion_evaluations[2].document_b_score = 5
    /\ CompareResult.overall_scores = <<60, 40>>

C13_InvalidKeyShortCircuits ==
    (openai_api_key <= MinKeyLen) =>
        /\ cmp.pc \in {"none", "returned"}
        /\ cmp.evaluate_calls = 0
        /\ ev = NoEval
        /\ cmp.pc = "returned" =>
              /\ ~cmp.out.raised
              /\ CompareResult.document_a = cmp.doc1
              /\ CompareResult.document_b = cmp.doc2
              /\ CompareResult.winner = "Error"
              /\ CompareResult.error = "Invalid OpenAI API key"
              /\ CompareResult.criterion_evaluations = <<>>
              /\ CompareResult.overall_scores = <<0, 0>>

C13_Witness ==
    /\ openai_api_key <= MinKeyLen
    /\ cmp.pc = "returned"
    /\ cmp.doc1 \notin loaded
    /\ CompareResult.error = "Invalid OpenAI API key"

----------------------------------------------------------------------------
(* CriterionEvaluator.evaluate *)

EvaluateReturned == ev.pc = "returned" /\ ~ev.out.raised
EvaluateResult == ev.out.value[1]

IsErrorVerdict(verdict, error_message) ==
    /\ verdict.document_a_score = 0
    /\ verdict.document_b_score = 0
    /\ verdict.winner = "N/A"
    /\ verdict.reasoning = <<"Error occurred: ", error_message>>

IsNumeric(v) == Float(v) # <<>>

\* the reply parsed, and at least one required field is missing from it
OmitsRequiredField(raw) ==
    /\ raw.kind = "json"
    /\ \/ raw.document_a_score = JAbsent
       \/ raw.document_b_score = JAbsent
       \/ raw.winner = Absent

\* C15: when the reply parses but omits required fields, evaluate returns a
\* verdict in which a missing score is 0, a missing winner is "N/A", and
\* every field the reply did have (the winner, the name, the rationale, a
\* numeric score) has the value it had in the reply
C15_MissingFieldsRepaired ==
    (ev.pc = "returned" /\ EvaluatorValidateApiKey
        /\ OmitsRequiredField(ev.raw)) =>
        /\ ~ev.out.raised
        /\ ev.raw.document_a_score = JAbsent =>
              EvaluateResult.document_a_score = 0
        /\ ev.raw.document_b_score = JAbsent =>
              EvaluateResult.document_b_score = 0
        /\ EvaluateResult.winner
              = IF ev.raw.winner = Absent THEN "N/A" ELSE ev.raw.winner
        /\ EvaluateResult.criterion_name = ev.raw.criterion_name
        /\ EvaluateResult.reasoning = ev.raw.reasoning
        /\ IsNumeric(ev.raw.document_a_score) =>
              EvaluateResult.document_a_score
                = Float(ev.raw.document_a_score)[1]
        /\ IsNumeric(ev.raw.document_b_score) =>
              EvaluateResult.document_b_score
                = Float(ev.raw.document_b_score)[1]

\* C16: after validation a score the reply gave as a non-numeric value is
\* 0, and a score the reply gave as a number (or as the text of a number)
\* has that number as its value, whatever the other score of the reply is
C16_ScoresCoercedSeparately ==
    (ev.pc = "returned" /\ EvaluatorValidateApiKey
        /\ ev.raw.kind = "json") =>
        /\ ~ev.out.raised
        /\ EvaluateResult.document_a_score
              = IF IsNumeric(ev.raw.document_a_score)
                THEN Float(ev.raw.document_a_score)[1] ELSE 0
        /\ EvaluateResult.document_b_score
              = IF IsNumeric(ev.raw.document_b_score)
                THEN Float(ev.raw.document_b_score)[1] ELSE 0

RECURSIVE SumOfWeights(_)
SumOfWeights(k) == IF k = 0 THEN 0 ELSE SumOfWeights(k - 1) + criteria[k].weight

\* C17: every verdict evaluate returns has both scores within 0..5, and no
\* weighted total of a result of compare exceeds the sum of the criterion
\* weights
C17_ScoresWithinRange ==
    /\ EvaluateReturned =>
          /\ EvaluateResult.document_a_score \in 0..MaxScore
          /\ EvaluateResult.document_b_score \in 0..MaxScore
    /\ CompareReturned =>
          /\ CompareResult.overall_scores[1] <= SumOfWeights(Len(criteria))
          /\ CompareResult.overall_scores[2] <= SumOfWeights(Len(criteria))

----------------------------------------------------------------------------
(* the response limit *)

\* C18: for every prompt size the response limit passed to the judge keeps
\* the prompt plus the response within 4096 tokens
C18_WithinTotalBudget ==
    budget.pc = "computed" =>
        budget.prompt_tokens + budget.max_tokens <= ContextTokens

\* C18, amended: the response limit is always between 1000 and 1500; it is
\* 4096 - 50 - p whenever that value lies between 1000 and 1500; so prompt,
\* response limit and the reserve of 50 stay within 4096 for prompts of at
\* most 3046 tokens, and prompt plus response limit stay within 4096
\* exactly for prompts of at most 3096 tokens: beyond that the floor of
\* 1000 wins over the budget
C18_BudgetUpToTheFloor ==
    budget.pc = "computed" =>
        LET p == budget.prompt_tokens
            room == ContextTokens - ReservedTokens - p
        IN /\ budget.max_tokens \in MinResponseTokens..MaxResponseTokens
           /\ room \in MinResponseTokens..MaxResponseTokens =>
                 budget.max_tokens = room
           /\ room >= MinResponseTokens =>
                 p + budget.max_tokens + ReservedTokens <= ContextTokens
           /\ (p + budget.max_tokens <= ContextTokens)
                 <=> (p <= ContextTokens - MinResponseTokens)

\* a prompt too large for the budget still gets the minimum response limit
C18_Witness ==
    /\ budget.pc = "computed"
    /\ budget.prompt_tokens > ContextTokens - MinResponseTokens
    /\ budget.max_tokens = MinResponseTokens

----------------------------------------------------------------------------
(* ComparisonDataProcessor *)

RECURSIVE SumOver(_, _)
SumOver(f, S) ==
    IF S = {} THEN 0
    ELSE LET x == CHOOSE y \in S : TRUE IN f[x] + SumOver(f, S \ {x})

\* C19: the win counts have one entry per document of the list, each the
\* number of log entries whose winner is that document; entries won by
\* nobody ("Tie", "Error", None) count for no document, and the counts sum
\* to at most the length of the log
C19_WinCounts ==
    report.pc = "done" =>
        /\ DOMAIN report.win_counts = Elems(documents)
        /\ \A doc \in Elems(documents) :
              report.win_counts[doc]
                = Cardinality({i \in 1..Len(Log) : Log[i].winner = doc})
        /\ SumOver(report.win_counts, Elems(documents))
              = Cardinality({i \in 1..Len(Log) :
                                Log[i].winner \in Elems(documents)})
        /\ SumOver(report.win_counts, Elems(documents)) <= Len(Log)

\* a log with a win, a tie and a comparison that failed
C19_Witness ==
    /\ report.pc = "done"
    /\ \E doc \in Elems(documents) : report.win_counts[doc] >= 1
    /\ \E i \in 1..Len(Log) : Log[i].winner = "Tie"
    /\ \E i \in 1..Len(Log) : Log[i].winner = "None"
    /\ SumOver(report.win_counts, Elems(documents)) < Len(Log)

\* where a document was scored on a criterion: <<i, j>> is evaluation j of
\* log entry i, an entry the document appeared in
ScoredAt(doc, criterion) ==
    {ij \in (1..Len(Log)) \X (1..Len(criteria)) :
        /\ ij[2] <= Len(Log[ij[1]].criterion_evaluations)
        /\ Log[ij[1]].criterion_evaluations[ij[2]].criterion_name = criterion
        /\ doc \in {Log[ij[1]].document_a, Log[ij[1]].document_b}}

ScoreAt(doc, ij) ==
    IF Log[ij[1]].document_a = doc
    THEN Log[ij[1]].criterion_evaluations[ij[2]].document_a_score
    ELSE Log[ij[1]].criterion_evaluations[ij[2]].document_b_score

\* C20: the criterion summary gives, for each document and each criterion,
\* the mean (shown to two decimals) of the document's score on that
\* criterion over every logged comparison the document appeared in, zero
\* scores included, and 0 when there is no such score
C20_MeanOverEveryComparison ==
    report.pc = "done" =>
        \A doc \in Elems(documents) :
            \A criterion \in DOMAIN report.criterion_summary[doc] :
                LET at == ScoredAt(doc, criterion)
                    score == [ij \in at |-> ScoreAt(doc, ij)]
                IN report.criterion_summary[doc][criterion]
                     = IF at = {} THEN 0
                       ELSE RoundedMean(SumOver(score, at), Cardinality(at))

----------------------------------------------------------------------------
(* compare_with_mergesort: further properties of the ranking *)

\* the document takes part in log entry k
TakesPart(d, k) == d \in {Log[k].document_a, Log[k].document_b}

\* the document is declared the winner of every comparison it takes part in
AlwaysWins(d) ==
    \A k \in 1..Len(Log) :
        TakesPart(d, k) => (Log[k].winner = d /\ Log[k].error = "N/A")

\* the list without the document, order kept
RECURSIVE Without(_, _)
Without(s, d) ==
    IF s = <<>> THEN <<>>
    ELSE IF Head(s) = d THEN Without(Tail(s), d)
    ELSE <<Head(s)>> \o Without(Tail(s), d)

\* C21: a document that is declared the winner of every comparison it takes
\* part in is ranked first, for every input order of the (distinct)
\* documents and whatever the verdicts among the others are; when all the
\* comparisons among the others are ties, the others follow it in their
\* input order
C21_AlwaysWinnerFirst ==
    (pc = "done" /\ Distinct(documents)) =>
        \A y \in Elems(documents) :
            AlwaysWins(y) =>
                /\ ranked[1] = y
                /\ (\A k \in 1..Len(Log) :
                        ~TakesPart(y, k) =>
                            (Log[k].winner = "Tie" /\ Log[k].error = "N/A"))
                     => ranked = <<y>> \o Without(documents, y)

\* X, Y, Z with Y last in the input, Y winning twice and X tied with Z
C21_Witness ==
    /\ pc = "done"
    /\ Distinct(documents)
    /\ Len(documents) = 3
    /\ AlwaysWins(documents[3])
    /\ Len(Log) = 3
    /\ \E k \in 1..Len(Log) : Log[k].winner = "Tie"
    /\ ranked = <<documents[3], documents[1], documents[2]>>

\* the least k with 2^k >= n
RECURSIVE CeilLog2(_)
CeilLog2(n) == IF n <= 1 THEN 0 ELSE 1 + CeilLog2((n + 1) \div 2)

\* C22: at every point of a run over n pairwise-distinct documents the
\* number of DocumentComparator.compare calls made so far is at most
\* n * ceil(log2 n), which is 0 for n <= 1, whatever the judge answers
C22_CompareCallBound ==
    Distinct(documents) =>
        Len(calls) <= Len(documents) * CeilLog2(Len(documents))

\* four documents and the most calls they can need
C22_Witness ==
    /\ pc = "done"
    /\ Distinct(documents)
    /\ Len(documents) = 4
    /\ Len(calls) = 5

----------------------------------------------------------------------------
(* MergesortRanker *)

AllErrors == \A k \in 1..Len(Log) : Log[k].error # "N/A"

\* C23: a step of MergesortRanker.merge whose comparison result carries an
\* error sentinel (winner None or "Error") emits the head of the left list
\* and advances the left pointer only, as for a tie; so when every
\* comparison fails, rank_documents returns the input order
C23_RankerErrorAsTie ==
    /\ [][ (InMergeLoop /\ lastCall'.result[1].error # "N/A")
           => stack' = SetTop(stack,
                 [Top EXCEPT !.result = Append(Top.result, Top.left[Top.i + 1]),
                             !.i = Top.i + 1]) ]_vars
    /\ []((pc = "done" /\ AllErrors) => ranked = documents)

----------------------------------------------------------------------------
(* the comparison log *)

\* C24: the log is append-only. Every step leaves it unchanged or appends
\* exactly one entry at its end, and that entry is the result of a cache
\* miss in the orientation requested; a request answered from the cache
\* (direct or reversed) leaves the log unchanged
C24_LogAppendOnly ==
    [][ /\ \/ comparison_results' = comparison_results
           \/ /\ Len(comparison_results') = Len(comparison_results) + 1
              /\ SubSeq(comparison_results', 1, Len(comparison_results))
                   = comparison_results
              /\ lastCall'.hit = "miss"
              /\ comparison_results'[Len(comparison_results')]
                   = lastCall'.result[1]
              /\ lastCall'.result[1].document_a = lastCall'.doc1
              /\ lastCall'.result[1].document_b = lastCall'.doc2
        /\ (lastCall' # lastCall /\ lastCall'.hit \in {"direct", "reverse"})
              => comparison_results' = comparison_results ]_vars

\* a request in the logged orientation was answered from the cache
C24_Witness ==
    /\ lastCall.hit = "direct"
    /\ direct = 1
    /\ pc = "done"
    /\ Len(Log) = 1
    /\ Log[1] = lastCall.result[1]

\* C25: when two threads call compare_documents on one engine for the same
\* unordered pair, in every interleaving DocumentComparator.compare is
\* invoked at most once for the pair and the log holds at most one entry
\* for it
C25_CacheSafeUnderThreads ==
    /\ \A m, n \in 1..Len(calls) :
           m # n => UnorderedPair(calls[m]) # UnorderedPair(calls[n])
    /\ \A m, n \in 1..Len(Log) :
           m # n => {Log[m].document_a, Log[m].document_b}
                      # {Log[n].document_a, Log[n].document_b}

-----------------------------------------------------------------------------
(* the compare-documents endpoint *)

\* the documents a request makes available to rank
Available ==
    IF api.use_uploaded_pdfs THEN Elems(api.pdfs)
    ELSE Elems(api.documents_data)

\* C26: the endpoint never runs a ranking over fewer than two distinct
\* documents; whenever fewer than two distinct documents are available it
\* answers 400 "Provide at least two documents for comparison" and no
\* comparison is made
C26_AtLeastTwoDistinct ==
    /\ pc # "idle" => Cardinality(Elems(documents)) >= 2
    /\ (api.pc # "idle" /\ Cardinality(Available) < 2)
          => /\ api.pc = "answered"
             /\ api.status = 400
             /\ api.error = ProvideTwo
             /\ calls = <<>>

-----------------------------------------------------------------------------
(* compare_with_mergesort: the ranking against the log *)

\* the log entries of the unordered pair {d, e}
EntriesFor(d, e) ==
    {n \in 1..Len(Log) : {Log[n].document_a, Log[n].document_b} = {d, e}}

\* C27: whatever the judge answers, any two documents that are adjacent in
\* the list returned by compare_with_mergesort over pairwise-distinct ids
\* were compared during the run, and in the logged comparison the
\* later-ranked one is not the winner
C27_NeighboursWereCompared ==
    (pc = "done" /\ Distinct(documents)) =>
        \A k \in 1..(Len(ranked) - 1) :
            /\ EntriesFor(ranked[k], ranked[k + 1]) # {}
            /\ \A n \in EntriesFor(ranked[k], ranked[k + 1]) :
                   Log[n].winner # ranked[k + 1]

\* a ranking of four documents that differs from the input, decided by wins
\* and by a tie, with a pair that was never compared
C27_Witness ==
    /\ pc = "done"
    /\ Distinct(documents)
    /\ Len(ranked) = 4
    /\ ranked # documents
    /\ \E n \in 1..Len(Log) : Log[n].winner = "Tie"
    /\ \E n \in 1..Len(Log) : Log[n].winner = ranked[1]
    /\ EntriesFor(ranked[1], ranked[4]) = {}

\* C28: whatever the judge answers, the document ranked first by
\* compare_with_mergesort over pairwise-distinct ids is not the loser of any
\* comparison in the log of the run: every logged comparison it took part
\* in was won by it, tied, or an error
C28_FirstNeverLost ==
    (pc = "done" /\ Distinct(documents) /\ ranked # <<>>) =>
        \A n \in 1..Len(Log) :
            ranked[1] \in {Log[n].document_a, Log[n].document_b}
                => Log[n].winner \in {ranked[1], "Tie", "Error", "None"}

\* the first of four documents won one comparison and tied another, and a
\* document ranked below it won a comparison as well
C28_Witness ==
    /\ pc = "done"
    /\ Distinct(documents)
    /\ Len(ranked) = 4
    /\ \E m, n \in 1..Len(Log) :
          /\ ranked[1] \in {Log[m].document_a, Log[m].document_b}
          /\ Log[m].winner = ranked[1]
          /\ ranked[1] \in {Log[n].document_a, Log[n].document_b}
          /\ Log[n].winner = "Tie"
    /\ \E n \in 1..Len(Log) : Log[n].winner \in {ranked[2], ranked[3]}

\* C29: during one compare_with_mergesort run over pairwise-distinct ids on
\* a fresh engine every comparison request of a merge is a cache miss, which
\* invokes the comparator once and appends one entry; so the log is as long
\* as the number of requests made and no two entries share an unordered pair
C29_EveryRequestMisses ==
    /\ [][ (Distinct(documents) /\ InMergeLoop)
             => /\ lastCall'.hit = "miss"
                /\ Len(calls') = Len(calls) + 1
                /\ Len(Log') = Len(Log) + 1 ]_vars
    /\ [](Distinct(documents)
             => /\ Len(Log) = Len(calls)
                /\ \A m, n \in 1..Len(Log) :
                       m # n => {Log[m].document_a, Log[m].document_b}
                                  # {Log[n].document_a, Log[n].document_b})

\* a finished run over four documents that made five requests
C29_Witness ==
    /\ pc = "done"
    /\ Distinct(documents)
    /\ Len(documents) = 4
    /\ Len(Log) = 5
    /\ lastCall.hit = "miss"

-----------------------------------------------------------------------------
(* DocumentComparator.compare: the labels of the verdicts *)

\* C30: in every non-error result of compare the list of criterion verdicts
\* has one verdict per catalog criterion, in catalog order, each labelled
\* with the name of the catalog criterion it was judged under whatever
\* criterion_name the reply contains, and criterion_scores holds that
\* verdict's scores under the catalog name
C30_VerdictsCarryCatalogNames ==
    (CompareReturned /\ CompareResult.error = "N/A") =>
        /\ Len(CompareResult.criterion_evaluations) = Len(criteria)
        /\ \A k \in 1..Len(criteria) :
              LET criterion_eval == CompareResult.criterion_evaluations[k]
              IN /\ criterion_eval.criterion_name = criteria[k].name
                 /\ CompareResult.criterion_scores[k]
                      = <<criterion_eval.document_a_score, criterion_eval.document_b_score>>

============================================================================
